---- MODULE Spec2Model ----
(***************************************************************************)
(* Document ingestion and retrieval pipeline of the QA agent backend:      *)
(* DocumentChunker / EmbeddingGenerator / IngestionPipeline (ingest.py),   *)
(* ChromaVectorDB (vector_db/chroma_db.py) and the FastAPI handlers that   *)
(* drive them (main.py).                                                   *)
(*                                                                         *)
(* Texts are sequences of one-character strings.  Vectors are sequences   *)
(* of integers.  The Chroma collection is modelled by what its client API *)
(* does for the calls the repository makes (add, query, delete_collection, *)
(* get_or_create_collection).                                              *)
(***************************************************************************)
EXTENDS Integers, Sequences, FiniteSets, TLC

(***************************************************************************)
(* Bounds of the model.                                                    *)
(***************************************************************************)
\* most files in one upload / most paths in one ingest_documents call /
\* most chunks in one direct add_documents call
MaxBatch == 2
\* largest top_k a search is called with
MaxTopK == 2
\* CHUNK_SIZE and CHUNK_OVERLAP of the environment (main.py:45-46), scaled down
chunk_size == 3
chunk_overlap == 1
\* longest text handed to chunk_document on its own
MaxLen == 5
\* most characters a write that raises has put into the file
MaxCut == 1
\* largest chunk_size of a chunker called on its own
MaxChunkSize == 3

(***************************************************************************)
(* Small helpers.                                                          *)
(***************************************************************************)
Min(a, b) == IF a <= b THEN a ELSE b

RECURSIVE Concat(_)
\* "".join(parts)
Concat(parts) ==
    IF parts = <<>> THEN <<>> ELSE Head(parts) \o Concat(Tail(parts))

Range(s) == {s[i] : i \in 1..Len(s)}

SeqsUpTo(S, lo, hi) == UNION {[1..n -> S] : n \in lo..hi}

(***************************************************************************)
(* RecursiveCharacterTextSplitter(chunk_size, chunk_overlap).split_text,   *)
(* as DocumentChunker uses it: separators "\n\n", "\n", " ", "", the       *)
(* separator kept at the start of the piece that follows it, whitespace    *)
(* stripped from every merged chunk, empty chunks dropped.                 *)
(***************************************************************************)
separators == << <<"\n", "\n">>, <<"\n">>, <<" ">>, <<>> >>

IsSpace(c) == c \in {" ", "\n", "\t"}

RECURSIVE LStrip(_)
LStrip(t) == IF t # <<>> /\ IsSpace(Head(t)) THEN LStrip(Tail(t)) ELSE t

RECURSIVE RStrip(_)
RStrip(t) ==
    IF t # <<>> /\ IsSpace(t[Len(t)]) THEN RStrip(SubSeq(t, 1, Len(t) - 1)) ELSE t

\* str.strip()
Strip(t) == RStrip(LStrip(t))

\* the positions at which sep occurs in text
Occurrences(text, sep) ==
    {i \in 1..(Len(text) - Len(sep) + 1) : SubSeq(text, i, i + Len(sep) - 1) = sep}

\* re.search(re.escape(sep), text)
Contains(text, sep) == Occurrences(text, sep) # {}

RECURSIVE Pieces(_, _)
\* re.split(sep, text) for a non-empty literal sep: leftmost non-overlapping
\* matches, the pieces between them
Pieces(text, sep) ==
    IF ~Contains(text, sep) THEN <<text>>
    ELSE LET i == CHOOSE j \in Occurrences(text, sep) :
                      \A l \in Occurrences(text, sep) : j <= l
         IN  <<SubSeq(text, 1, i - 1)>>
               \o Pieces(SubSeq(text, i + Len(sep), Len(text)), sep)

\* _split_text_with_regex(text, sep, keep_separator=True)
split_text_with_regex(text, sep) ==
    LET raw == IF sep = <<>>
               THEN [i \in 1..Len(text) |-> <<text[i]>>]
               ELSE LET p == Pieces(text, sep)
                    IN  [i \in 1..Len(p) |-> IF i = 1 THEN p[1] ELSE sep \o p[i]]
    IN  SelectSeq(raw, LAMBDA s : s # <<>>)

\* TextSplitter._join_docs: <<>> stands for None
join_docs(docs, separator) == Strip(Concat(docs))

RECURSIVE PopWhile(_, _, _, _, _)
\* the "keep on popping" loop of _merge_splits: returns <<current_doc, total>>
PopWhile(self, current_doc, total, len, separator_len) ==
    IF total > self.chunk_overlap
         \/ (total + len + (IF Len(current_doc) > 0 THEN separator_len ELSE 0)
                > self.chunk_size /\ total > 0)
    THEN PopWhile(self, Tail(current_doc),
                  total - (Len(Head(current_doc))
                           + (IF Len(current_doc) > 1 THEN separator_len ELSE 0)),
                  len, separator_len)
    ELSE <<current_doc, total>>

RECURSIVE MergeLoop(_, _, _, _, _, _)
\* the for loop of _merge_splits over splits, from (docs, current_doc, total)
MergeLoop(self, splits, separator, docs, current_doc, total) ==
    IF splits = <<>>
    THEN LET doc == join_docs(current_doc, separator)
         IN  IF doc # <<>> THEN Append(docs, doc) ELSE docs
    ELSE LET d == Head(splits)
             len == Len(d)
             separator_len == Len(separator)
             over == total + len
                       + (IF Len(current_doc) > 0 THEN separator_len ELSE 0)
                       > self.chunk_size
             flush == over /\ Len(current_doc) > 0
             doc == join_docs(current_doc, separator)
             docs1 == IF flush /\ doc # <<>> THEN Append(docs, doc) ELSE docs
             popped == IF flush
                       THEN PopWhile(self, current_doc, total, len, separator_len)
                       ELSE <<current_doc, total>>
             cur2 == Append(popped[1], d)
             total2 == popped[2] + len
                         + (IF Len(cur2) > 1 THEN separator_len ELSE 0)
         IN  MergeLoop(self, Tail(splits), separator, docs1, cur2, total2)

\* TextSplitter._merge_splits
merge_splits(self, splits, separator) ==
    MergeLoop(self, splits, separator, <<>>, <<>>, 0)

RECURSIVE SplitRec(_, _, _)
RECURSIVE SplitLoop(_, _, _, _, _)
\* the for loop of _split_text over splits, from (final_chunks, _good_splits)
SplitLoop(self, splits, new_separators, final_chunks, good_splits) ==
    IF splits = <<>>
    THEN IF good_splits # <<>>
         THEN final_chunks \o merge_splits(self, good_splits, <<>>)
         ELSE final_chunks
    ELSE LET s == Head(splits)
         IN  IF Len(s) < self.chunk_size
             THEN SplitLoop(self, Tail(splits), new_separators, final_chunks,
                            Append(good_splits, s))
             ELSE LET flushed == IF good_splits # <<>>
                                 THEN final_chunks
                                        \o merge_splits(self, good_splits, <<>>)
                                 ELSE final_chunks
                      more == IF new_separators = <<>>
                              THEN <<s>>
                              ELSE SplitRec(self, s, new_separators)
                  IN  SplitLoop(self, Tail(splits), new_separators,
                                flushed \o more, <<>>)

\* RecursiveCharacterTextSplitter._split_text(text, separators)
SplitRec(self, text, seps) ==
    LET hits == {i \in 1..Len(seps) : seps[i] = <<>> \/ Contains(text, seps[i])}
        i == IF hits = {} THEN Len(seps)
             ELSE CHOOSE j \in hits : \A l \in hits : j <= l
        separator == seps[i]
        new_separators == IF hits = {} \/ separator = <<>>
                          THEN <<>>
                          ELSE SubSeq(seps, i + 1, Len(seps))
    IN  SplitLoop(self, split_text_with_regex(text, separator), new_separators,
                  <<>>, <<>>)

\* a splitter that only trims the text
split_text_whole(self, text) ==
    IF Strip(text) = <<>> THEN <<>> ELSE <<Strip(text)>>

\* self.splitter.split_text(text): self is the splitter's chunk_size and
\* chunk_overlap
split_text(self, text) == SplitRec(self, text, separators)

\* chunker = DocumentChunker(chunk_size=CHUNK_SIZE, chunk_overlap=CHUNK_OVERLAP),
\* the chunker of the service
chunker == [chunk_size |-> chunk_size, chunk_overlap |-> chunk_overlap]

(***************************************************************************)
(* State.                                                                  *)
(***************************************************************************)
VARIABLES
    store,           \* vector_db: the Chroma collection
    uploaded_files,  \* main.py's global: the paths of the latest upload
    ret,             \* the last call or request: its arguments and its outcome
    pre,             \* the store as that call or request found it
    html_content_store,      \* main.py's global: the HTML last uploaded
    current_script_session,  \* main.py's global: the folder of the scripts
    tasks,           \* the callers or requests in progress, where there are any
    cut_files        \* of the files uploaded_files names, those that a write
                     \* cut short: the text each holds

(***************************************************************************)
(* The files the pipeline is run on.  A path is its directory, stem and    *)
(* suffix; Path(file_path).name is stem + suffix.  A client sends one text *)
(* under each name (FileText); the file on disk holds that text once it is *)
(* written whole, and the start of it when the write was cut short.  An    *)
(* extractor reads the file as it is on disk and returns the text it makes *)
(* of it, or ExtractionFails when it raises (a file that is not valid      *)
(* JSON).                                                                  *)
(***************************************************************************)
Paths == { [dir |-> "s1", stem |-> "a", suffix |-> ".txt"],
           [dir |-> "s2", stem |-> "a", suffix |-> ".txt"],
           [dir |-> "s1", stem |-> "b", suffix |-> ".JSON"],
           [dir |-> "s2", stem |-> "b", suffix |-> ".TXT"],
           [dir |-> "s1", stem |-> "q", suffix |-> ".json"],
           [dir |-> "s1", stem |-> "z", suffix |-> ".bin"] }

\* Path(file_path).name
PathName(path) == path.stem \o path.suffix

\* path.suffix.lower()
Lower(suffix) ==
    CASE suffix = ".TXT" -> ".txt"
      [] suffix = ".JSON" -> ".json"
      [] suffix = ".MD" -> ".md"
      [] OTHER -> suffix

ExtractionFails == <<"raises">>

\* the text of the file a client sends under each path
FileText(path) ==
    CASE path.dir = "s1" /\ path.stem = "a" -> <<"a", "b", " ", "c", "d">>
      [] path.dir = "s2" /\ path.stem = "a" -> <<"c", "d">>
      [] path.dir = "s1" /\ path.stem = "b" -> <<"[", " ", "]">>
      [] path.dir = "s2" /\ path.stem = "b" -> <<>>
      [] path.dir = "s1" /\ path.stem = "q" -> <<"{">>
      [] OTHER -> <<"z">>

\* what a write of the file that raises can have left of it on disk: its
\* first characters, MaxCut of them at most
Cuts(path) ==
    {SubSeq(FileText(path), 1, n) : n \in 0..Min(MaxCut, Len(FileText(path)))}

\* no file is cut short
NoFiles == [path \in {} |-> <<>>]

\* the text of the file at a path as it is on disk
TextOnDisk(path) ==
    IF path \in DOMAIN cut_files THEN cut_files[path] ELSE FileText(path)

\* DocumentExtractor.extract_text: the text of the file among files, the
\* files as they are on disk
extract_text(files, path) == files[path]

\* the whitespace of JSON
JsonWhitespace == {" ", "\n", "\t", "\r"}

RECURSIVE JsonStrip(_)
\* the text without the JSON whitespace at its two ends
JsonStrip(text) ==
    IF text = <<>> THEN <<>>
    ELSE IF Head(text) \in JsonWhitespace THEN JsonStrip(Tail(text))
    ELSE IF text[Len(text)] \in JsonWhitespace
         THEN JsonStrip(SubSeq(text, 1, Len(text) - 1))
    ELSE text

\* the text is a JSON integer: digits, no leading zero
IsInt(text) ==
    /\ text # <<>>
    /\ \A i \in 1..Len(text) :
         text[i] \in {"0", "1", "2", "3", "4", "5", "6", "7", "8", "9"}
    /\ Len(text) > 1 => text[1] # "0"

RECURSIVE SplitAtCommas(_, _)
\* the pieces of the text between its commas, piece being the one begun
SplitAtCommas(text, piece) ==
    IF text = <<>> THEN <<piece>>
    ELSE IF Head(text) = "," THEN <<piece>> \o SplitAtCommas(Tail(text), <<>>)
    ELSE SplitAtCommas(Tail(text), Append(piece, Head(text)))

JSONDecodeError == [raised |-> TRUE, data |-> [kind |-> "none"]]

\* json.load(f) on the text of a file, for the JSON the files of the model
\* can hold: an integer, an empty object, a list of integers, with
\* whitespace around the tokens (no strings, no nesting); any other text
\* of these files is not JSON and raises json.JSONDecodeError
json_load(text) ==
    LET t == JsonStrip(text)
        inner == IF Len(t) >= 2 THEN JsonStrip(SubSeq(t, 2, Len(t) - 1)) ELSE <<>>
        pieces == SplitAtCommas(inner, <<>>)
        items == [i \in 1..Len(pieces) |-> JsonStrip(pieces[i])]
    IN  CASE IsInt(t) -> [raised |-> FALSE, data |-> [kind |-> "int", text |-> t]]
          [] Len(t) >= 2 /\ t[1] = "{" /\ t[Len(t)] = "}" ->
               IF inner = <<>>
               THEN [raised |-> FALSE, data |-> [kind |-> "dict"]]
               ELSE JSONDecodeError
          [] Len(t) >= 2 /\ t[1] = "[" /\ t[Len(t)] = "]" ->
               IF inner = <<>>
               THEN [raised |-> FALSE, data |-> [kind |-> "list", items |-> <<>>]]
               ELSE IF \A i \in 1..Len(items) : IsInt(items[i])
               THEN [raised |-> FALSE, data |-> [kind |-> "list", items |-> items]]
               ELSE JSONDecodeError
          [] OTHER -> JSONDecodeError

RECURSIVE DumpItems(_)
\* the items of a list as json.dumps(indent=2) writes them: each on its
\* line after two spaces, a comma between them
DumpItems(items) ==
    IF Len(items) = 1 THEN <<" ", " ">> \o Head(items) \o <<"\n">>
    ELSE <<" ", " ">> \o Head(items) \o <<",", "\n">> \o DumpItems(Tail(items))

\* json.dumps(data, indent=2)
json_dumps(data) ==
    CASE data.kind = "int" -> data.text
      [] data.kind = "dict" -> <<"{", "}">>
      [] data.kind = "list" ->
           IF data.items = <<>> THEN <<"[", "]">>
           ELSE <<"[", "\n">> \o DumpItems(data.items) \o <<"]">>

\* what extract_json makes of a text that json.load has read or refused
Dumped(loaded) ==
    IF loaded.raised THEN ExtractionFails ELSE json_dumps(loaded.data)

\* DocumentExtractor.extract_json: json.dumps(json.load(f), indent=2); the
\* text returned is written anew from the data, and a file that is not
\* JSON raises
extract_json(files, path) == Dumped(json_load(files[path]))

(***************************************************************************)
(* DocumentChunker.chunk_document and EmbeddingGenerator.                  *)
(***************************************************************************)
\* f"{metadata.get('filename', 'doc')}_{i}"
ChunkId(filename, i) == filename \o "_" \o ToString(i)

\* chunk_document counting the chunks from 1
chunk_document_from_one(self, text, metadata) ==
    LET chunks == split_text(self, text)
        filename == IF "filename" \in DOMAIN metadata
                    THEN metadata["filename"] ELSE "doc"
    IN  [k \in 1..Len(chunks) |->
           [id |-> ChunkId(filename, k - 1),
            content |-> chunks[k],
            metadata |-> [f \in DOMAIN metadata \cup {"chunk_index"} |->
                            IF f = "chunk_index" THEN k ELSE metadata[f]]]]

\* chunk_document keeping only the filename of the caller's metadata
chunk_document_filename_only(self, text, metadata) ==
    LET chunks == split_text(self, text)
        filename == IF "filename" \in DOMAIN metadata
                    THEN metadata["filename"] ELSE "doc"
    IN  [k \in 1..Len(chunks) |->
           [id |-> ChunkId(filename, k - 1),
            content |-> chunks[k],
            metadata |-> [filename |-> filename, chunk_index |-> k - 1]]]

\* DocumentChunker.chunk_document(self, text, metadata)
chunk_document(self, text, metadata) ==
    LET chunks == split_text(self, text)
        filename == IF "filename" \in DOMAIN metadata
                    THEN metadata["filename"] ELSE "doc"
    IN  [k \in 1..Len(chunks) |->
           [id |-> ChunkId(filename, k - 1),
            content |-> chunks[k],
            metadata |-> [f \in DOMAIN metadata \cup {"chunk_index"} |->
                            IF f = "chunk_index" THEN k - 1 ELSE metadata[f]]]]

Count(text, chars) == Cardinality({i \in 1..Len(text) : text[i] \in chars})

\* the sentence-transformer model: a fixed, deterministic map from a text to
\* a vector of the model's dimension
Encode(text) == <<Count(text, {"a", "b"}), Count(text, {"c", "d"})>>

\* EmbeddingGenerator.generate_embeddings: model.encode(texts)
generate_embeddings(texts) == [i \in 1..Len(texts) |-> Encode(texts[i])]

(***************************************************************************)
(* ChromaVectorDB.  The collection "qa_agent_docs" of the Chroma client:   *)
(* whether it exists, the dimension its first insert fixed (0: none yet),  *)
(* and its records by id.                                                  *)
(***************************************************************************)
NoRecords == [id \in {} |-> 0]

\* ChromaVectorDB.__init__: client.get_or_create_collection(name)
EmptyStore == [exists |-> TRUE, dim |-> 0, recs |-> NoRecords]

Ids(s) == DOMAIN s.recs

NoError == "none"

\* the most records the backend takes in one call of add (the client's
\* max_batch_size, thousands of records in a deployment)
max_batch_size == 2

\* the index of the first chunk of the batch that carries this id
IndexOf(ids, id) == CHOOSE i \in 1..Len(ids) : ids[i] = id /\ \A j \in 1..(i - 1) : ids[j] # id

\* collection.add(ids, documents, metadatas, embeddings): the ids are
\* validated (non-empty, no id twice in the call), then the lengths, then the
\* collection, the size of the batch against the backend's max_batch_size,
\* and the dimension; a record whose id the collection already holds is left
\* as it is, the others are inserted
collection_add(s, ids, documents, metadatas, embeddings) ==
    LET raised ==
          CASE Len(ids) = 0 -> "ValueError"
            [] Cardinality(Range(ids)) # Len(ids) -> "DuplicateIDError"
            [] Len(embeddings) # Len(ids) -> "ValueError"
            [] ~s.exists -> "InvalidCollectionException"
            [] Len(ids) > max_batch_size -> "ValueError"
            [] s.dim # 0 /\ Len(embeddings[1]) # s.dim -> "InvalidDimensionException"
            [] OTHER -> NoError
        fresh == Range(ids) \ Ids(s)
    IN  IF raised # NoError
        THEN [store |-> s, raised |-> raised]
        ELSE [store |->
                [exists |-> TRUE,
                 dim |-> Len(embeddings[1]),
                 recs |-> [id \in Ids(s) \cup fresh |->
                             IF id \in Ids(s) THEN s.recs[id]
                             ELSE LET i == IndexOf(ids, id)
                                  IN  [document |-> documents[i],
                                       metadata |-> metadatas[i],
                                       embedding |-> embeddings[i]]]],
              raised |-> NoError]

\* chunk.get('id', f"doc_{i}")
IdOf(chunk, i) == IF "id" \in DOMAIN chunk THEN chunk["id"] ELSE "doc_" \o ToString(i)

\* ChromaVectorDB.add_documents(chunks, embeddings)
add_documents(s, chunks, embeddings) ==
    LET ids == [i \in 1..Len(chunks) |-> IdOf(chunks[i], i - 1)]
        documents == [i \in 1..Len(chunks) |-> chunks[i].content]
        metadatas == [i \in 1..Len(chunks) |-> chunks[i].metadata]
        embeddings_list == embeddings
    IN  collection_add(s, ids, documents, metadatas, embeddings_list)

RECURSIVE SumSq(_, _)
SumSq(u, v) ==
    IF u = <<>> THEN 0
    ELSE (Head(u) - Head(v)) * (Head(u) - Head(v)) + SumSq(Tail(u), Tail(v))

\* the collection's metric: Chroma's default space "l2", the squared
\* Euclidean distance
Distance(u, v) == SumSq(u, v)

\* collection.query(query_embeddings=[query], n_results=top_k) when it
\* raises nothing: the answers the index can give, each the ids of
\* min(top_k, count) records in ascending order of distance.  The index is
\* an approximate one (HNSW): which records it finds is left open, a nearer
\* record may be missing from an answer.
collection_query(s, query, top_k) ==
    LET n == Min(top_k, Cardinality(Ids(s)))
    IN  {hits \in [1..n -> Ids(s)] :
           /\ \A i, j \in 1..n : i # j => hits[i] # hits[j]
           /\ \A i \in 1..(n - 1) :
                Distance(s.recs[hits[i]].embedding, query)
                  <= Distance(s.recs[hits[i + 1]].embedding, query)}

\* collection.query(query_embeddings=[query], n_results=top_k): what is
\* raised, if anything
query_raises(s, query, top_k) ==
    CASE top_k <= 0 -> "ValueError"
      [] ~s.exists -> "InvalidCollectionException"
      [] s.dim # 0 /\ Len(query) # s.dim -> "InvalidDimensionException"
      [] OTHER -> NoError

\* the format loop of ChromaVectorDB.search over results['documents'][0]
FormatResults(s, query, hit_ids) ==
    [i \in 1..Len(hit_ids) |->
       [content |-> s.recs[hit_ids[i]].document,
        metadata |-> s.recs[hit_ids[i]].metadata,
        distance |-> Distance(s.recs[hit_ids[i]].embedding, query)]]

\* ChromaVectorDB.search(query_embedding, top_k): the lists it can return
search(s, query, top_k) ==
    {FormatResults(s, query, hit_ids) : hit_ids \in collection_query(s, query, top_k)}

\* delete_all that deletes the records and keeps the collection
delete_all_keeps_collection(s) ==
    [store |-> [s EXCEPT !.recs = NoRecords], raised |-> NoError]

\* delete_all that leaves the collection and its records as they are
delete_all_nothing(s) == [store |-> s, raised |-> NoError]

\* delete_all that does not create the collection again
delete_all_without_create(s) ==
    IF ~s.exists
    THEN [store |-> s, raised |-> "ValueError"]
    ELSE [store |-> [exists |-> FALSE, dim |-> 0, recs |-> NoRecords],
          raised |-> NoError]

\* delete_collection that leaves the collection and its records as they are
delete_collection_nothing(s) == [store |-> s, raised |-> NoError]

\* client.delete_collection(name), which raises when no such collection
\* exists
delete_collection(s) ==
    IF ~s.exists
    THEN [store |-> s, raised |-> "ValueError"]
    ELSE [store |-> [exists |-> FALSE, dim |-> 0, recs |-> NoRecords],
          raised |-> NoError]

\* client.get_or_create_collection(name): the collection of this name, a
\* new and empty one when there is none
get_or_create_collection(s) == IF s.exists THEN s ELSE EmptyStore

\* ChromaVectorDB.delete_all run with nothing between its two lines:
\* client.delete_collection(name), then get_or_create_collection(name)
delete_all(s) ==
    IF delete_collection(s).raised # NoError
    THEN delete_collection(s)
    ELSE [store |-> get_or_create_collection(delete_collection(s).store),
          raised |-> NoError]

(***************************************************************************)
(* IngestionPipeline.ingest_documents.                                     *)
(***************************************************************************)
\* the body of the for loop for one file_path: whether it raises, and the
\* chunks it adds to all_chunks (none for an extension that is skipped)
IngestOne(files, path) ==
    LET file_ext == Lower(path.suffix)
        filename == PathName(path)
        supported == file_ext \in {".txt", ".md", ".json"}
        text == IF file_ext = ".json" THEN extract_json(files, path)
                ELSE extract_text(files, path)
        doc_type == IF file_ext = ".json" THEN "json" ELSE "text"
        metadata == [filename |-> filename, type |-> doc_type, section |-> "main"]
    IN  IF ~supported THEN [raised |-> FALSE, chunks |-> <<>>]
        ELSE IF text = ExtractionFails THEN [raised |-> TRUE, chunks |-> <<>>]
        ELSE [raised |-> FALSE, chunks |-> chunk_document(chunker, text, metadata)]

\* the loop body's outcome for each file of the model and each text it can
\* hold, computed once
FileChunks ==
    [path \in Paths |-> [text \in Cuts(path) \cup {FileText(path)} |-> IngestOne(path :> text, path)]]

\* the loop body's outcome for the file as it is on disk
Loaded(path) == FileChunks[path][TextOnDisk(path)]

RECURSIVE AssembleFrom(_, _)
\* the for loop over file_paths from all_chunks: it stops at the first file
\* whose extraction raises
AssembleFrom(file_paths, all_chunks) ==
    IF file_paths = <<>> THEN [raised |-> FALSE, chunks |-> all_chunks]
    ELSE LET one == Loaded(Head(file_paths))
         IN  IF one.raised THEN [raised |-> TRUE, chunks |-> all_chunks]
             ELSE AssembleFrom(Tail(file_paths), all_chunks \o one.chunks)

\* all_chunks as the loop leaves it
Assemble(file_paths) == AssembleFrom(file_paths, <<>>)

SuccessMessage(n_paths, n_chunks) ==
    "Successfully ingested " \o ToString(n_paths) \o " documents with "
      \o ToString(n_chunks) \o " chunks"

RECURSIVE IngestEachFrom(_, _)
\* a loop that embeds and inserts each file's chunks as it goes
IngestEachFrom(s, file_paths) ==
    IF file_paths = <<>> THEN [store |-> s, raised |-> NoError]
    ELSE LET one == Loaded(Head(file_paths))
             texts == [i \in 1..Len(one.chunks) |-> one.chunks[i].content]
             added == IF one.chunks = <<>>
                      THEN [store |-> s, raised |-> NoError]
                      ELSE add_documents(s, one.chunks, generate_embeddings(texts))
         IN  IF one.raised THEN [store |-> s, raised |-> "JSONDecodeError"]
             ELSE IF added.raised # NoError THEN [store |-> s, raised |-> added.raised]
             ELSE IngestEachFrom(added.store, Tail(file_paths))

\* ingest_documents inserting document by document
ingest_documents_per_document(s, file_paths, embed_fails) ==
    LET r == IngestEachFrom(s, file_paths)
        all_chunks == Assemble(file_paths).chunks
    IN  CASE r.raised # NoError ->
               [store |-> r.store, status |-> "error", message |-> r.raised]
          [] r.raised = NoError /\ all_chunks = <<>> ->
               [store |-> s, status |-> "error",
                message |-> "No valid documents to process"]
          [] r.raised = NoError /\ all_chunks # <<>> /\ embed_fails ->
               [store |-> s, status |-> "error", message |-> "RuntimeError"]
          [] OTHER ->
               [store |-> r.store, status |-> "success",
                message |-> SuccessMessage(Len(file_paths), Len(all_chunks))]

\* ingest_documents without the test of an empty all_chunks
ingest_documents_without_empty_test(s, file_paths, embed_fails) ==
    LET a == Assemble(file_paths)
        all_chunks == a.chunks
        texts == [i \in 1..Len(all_chunks) |-> all_chunks[i].content]
        added == add_documents(s, all_chunks, generate_embeddings(texts))
    IN  CASE a.raised ->
               [store |-> s, status |-> "error", message |-> "JSONDecodeError"]
          [] ~a.raised /\ embed_fails ->
               [store |-> s, status |-> "error", message |-> "RuntimeError"]
          [] OTHER ->
               IF added.raised # NoError
               THEN [store |-> s, status |-> "error", message |-> added.raised]
               ELSE [store |-> added.store, status |-> "success",
                     message |-> SuccessMessage(Len(file_paths), Len(all_chunks))]

\* the texts handed to the embedder
Contents(chunks) == [i \in 1..Len(chunks) |-> chunks[i].content]

\* what ingest_documents returns once add_documents has returned or raised
AfterAdd(s, n_paths, n_chunks, added) ==
    IF added.raised # NoError
    THEN [store |-> s, status |-> "error", message |-> added.raised]
    ELSE [store |-> added.store, status |-> "success",
          message |-> SuccessMessage(n_paths, n_chunks)]

\* ingest_documents from the end of its loop, which left a.chunks in
\* all_chunks or raised
AfterLoop(s, n_paths, a, embed_fails) ==
    CASE a.raised ->
               [store |-> s, status |-> "error", message |-> "JSONDecodeError"]
      [] ~a.raised /\ a.chunks = <<>> ->
               [store |-> s, status |-> "error",
                message |-> "No valid documents to process"]
      [] ~a.raised /\ a.chunks # <<>> /\ embed_fails ->
               [store |-> s, status |-> "error", message |-> "RuntimeError"]
      [] OTHER ->
               AfterAdd(s, n_paths, Len(a.chunks),
                        add_documents(s, a.chunks,
                                      generate_embeddings(Contents(a.chunks))))

\* ingest_documents(file_paths) on store s; embed_fails: the embedding model
\* raises.  The message of a caught exception is modelled by its class.
ingest_documents(s, file_paths, embed_fails) ==
    AfterLoop(s, Len(file_paths), Assemble(file_paths), embed_fails)

(***************************************************************************)
(* The tuple of the state, and the state after construction.               *)
(***************************************************************************)
vars == <<store, uploaded_files, ret, pre,
          html_content_store, current_script_session, tasks, cut_files>>

\* current_script_session = None
NoSession == "None"

\* no caller or request in progress is followed
NoTasks == <<>>

\* what a call of the store, the pipeline or the engine leaves alone
globals == <<uploaded_files, html_content_store, current_script_session, tasks,
             cut_files>>

NoCall == [op |-> "init", status |-> "ok", message |-> "",
           paths |-> <<>>, embed_fails |-> FALSE,
           chunks |-> <<>>, embeddings |-> <<>>,
           query |-> <<>>, k |-> 0, result |-> <<>>,
           text |-> <<>>, metadata |-> <<>>, chunker |-> chunker,
           context |-> <<>>, reply |-> <<>>]

Init ==
    /\ store = EmptyStore
    /\ uploaded_files = <<>>
    /\ ret = NoCall
    /\ pre = EmptyStore
    /\ html_content_store = ""
    /\ current_script_session = NoSession
    /\ tasks = NoTasks
    /\ cut_files = NoFiles

(***************************************************************************)
(* Inputs.                                                                 *)
(***************************************************************************)
PathLists == SeqsUpTo(Paths, 0, MaxBatch)

\* the files of one upload request land in one session directory
UploadLists == {fs \in SeqsUpTo(Paths, 1, MaxBatch) :
                   \A i \in 1..Len(fs) : fs[i].dir = fs[1].dir}

DirectMetadata == [filename |-> "m.md", type |-> "text", section |-> "main",
                   chunk_index |-> 0]

\* chunks handed to add_documents by a caller other than the pipeline: one
\* with an id, one without (its id is then "doc_" and its position)
DirectChunks == { [id |-> "doc_0", content |-> <<"a", "b">>, metadata |-> DirectMetadata],
                  [content |-> <<"z">>, metadata |-> DirectMetadata] }

\* the vectors such a caller passes: of another dimension than the model's
DirectVectors == { <<0>>, <<1>> }

\* the texts a query is made of
QueryTexts == { <<"a", "b">>, <<"d">> }

Queries == DirectVectors \cup {Encode(t) : t \in QueryTexts}

(***************************************************************************)
(* Calls of the vector store and the pipeline.                             *)
(***************************************************************************)
AddDocuments ==
    \E n \in 1..MaxBatch :
      \E chunks \in [1..n -> DirectChunks], embeddings \in [1..n -> DirectVectors] :
        LET r == add_documents(store, chunks, embeddings)
        IN  /\ store' = r.store
            /\ pre' = store
            /\ ret' = [NoCall EXCEPT !.op = "add_documents",
                                     !.status = IF r.raised = NoError THEN "ok" ELSE "raised",
                                     !.message = r.raised,
                                     !.chunks = chunks,
                                     !.embeddings = embeddings]
            /\ UNCHANGED globals

Search ==
    \E query \in Queries, top_k \in 1..MaxTopK :
      LET raised == query_raises(store, query, top_k)
      IN  /\ \E result \in (IF raised = NoError THEN search(store, query, top_k) ELSE {<<>>}) :
                ret' = [NoCall EXCEPT !.op = "search",
                                      !.status = IF raised = NoError THEN "ok" ELSE "raised",
                                      !.message = raised,
                                      !.query = query,
                                      !.k = top_k,
                                      !.result = result]
          /\ pre' = store
          /\ UNCHANGED <<store, globals>>

DeleteAll ==
    LET r == delete_all(store)
    IN  /\ store' = r.store
        /\ pre' = store
        /\ ret' = [NoCall EXCEPT !.op = "delete_all",
                                 !.status = IF r.raised = NoError THEN "ok" ELSE "raised",
                                 !.message = r.raised]
        /\ UNCHANGED globals

\* the call returns r: the store becomes r.store, ret records the call with
\* r's status and message
Returns(call, r) ==
    /\ store' = r.store
    /\ pre' = store
    /\ ret' = [call EXCEPT !.status = r.status, !.message = r.message]

\* whether ingest_documents(file_paths) gets as far as calling the embedder
NotEmpty(a) == ~a.raised /\ a.chunks # <<>>

ReachesEmbedder(file_paths) == NotEmpty(Assemble(file_paths))

\* the outcomes of the embedder a call can meet: it works, or (when the call
\* reaches it) it raises
EmbedderOutcomes(file_paths) ==
    IF ReachesEmbedder(file_paths) THEN BOOLEAN ELSE {FALSE}

IngestDocuments ==
    \E file_paths \in PathLists :
      \E embed_fails \in EmbedderOutcomes(file_paths) :
        /\ Returns([NoCall EXCEPT !.op = "ingest_documents",
                                   !.paths = file_paths,
                                   !.embed_fails = embed_fails],
                   ingest_documents(store, file_paths, embed_fails))
        /\ UNCHANGED globals

(***************************************************************************)
(* Requests of the service (main.py).                                      *)
(***************************************************************************)
\* open(file_path, "wb") raised: the path is left as it was
Unopened == <<"unopened">>

\* what a write of the k-th file that raises can leave of a file that an
\* earlier write of the request made and recorded under the same path: the
\* file whole when open raised, the start of the text when the copy raised
\* after open had emptied the file.  A file the request has not recorded
\* yet is named by nothing when the write of it raises.
LeftBy(files, k) ==
    IF k \in 1..Len(files) /\ \E j \in 1..(k - 1) : files[j] = files[k]
    THEN {Unopened} \cup Cuts(files[k])
    ELSE {Unopened}

\* POST /api/upload with files; fails_at: 0 when creating the session
\* directory raises (before uploaded_files is reset), i when writing the
\* i-th file raises (after the files before it were written and recorded;
\* left is then what the write made of its path), Len(files) + 1 when
\* nothing raises; resets: whether it got as far as resetting the globals
\* (none of the files is an HTML file, so the HTML content is then empty).
\* The request writes into a session directory of its own: the files it
\* records are whole but for the one a failed second write cut short.
upload_documents(uploaded, cut, files, fails_at, left) ==
    [uploaded_files |-> IF fails_at = 0 THEN uploaded
                        ELSE SubSeq(files, 1, Min(fails_at - 1, Len(files))),
     cut_files |-> IF fails_at = 0 THEN cut
                   ELSE IF fails_at > Len(files) \/ left = Unopened
                           \/ left = FileText(files[Min(fails_at, Len(files))])
                   THEN NoFiles
                   ELSE files[fails_at] :> left,
     resets |-> fails_at # 0,
     status |-> IF fails_at > Len(files) THEN "200" ELSE "500",
     message |-> IF fails_at > Len(files) THEN "" ELSE "OSError"]

\* build_kb without the delete_all before the ingestion
build_knowledge_base_without_clear(s, uploaded, embed_fails) ==
    LET result == ingest_documents(s, uploaded, embed_fails)
    IN  IF uploaded = <<>>
        THEN [store |-> s, status |-> "400",
              message |-> "No valid documents to process"]
        ELSE [store |-> result.store,
              status |-> IF result.status = "error" THEN "500" ELSE "200",
              message |-> result.message]

\* build_kb that leaves the store as it found it when the ingestion fails
build_knowledge_base_restoring(s, uploaded, embed_fails) ==
    LET result == ingest_documents(EmptyStore, uploaded, embed_fails)
    IN  IF uploaded = <<>>
        THEN [store |-> s, status |-> "400",
              message |-> "No valid documents to process"]
        ELSE [store |-> IF result.status = "error" THEN s ELSE result.store,
              status |-> IF result.status = "error" THEN "500" ELSE "200",
              message |-> result.message]

\* the response to build_kb once ingest_documents has returned result
AfterIngest(result) ==
    [store |-> result.store,
     status |-> IF result.status = "error" THEN "500" ELSE "200",
     message |-> result.message]

\* build_kb once delete_all has returned or raised
AfterDeleteAll(s, cleared, uploaded, embed_fails) ==
    IF cleared.raised # NoError
    THEN [store |-> s, status |-> "500", message |-> cleared.raised]
    ELSE AfterIngest(ingest_documents(cleared.store, uploaded, embed_fails))

\* POST /api/build_kb on store s with the global uploaded_files
build_knowledge_base(s, uploaded, embed_fails) ==
    IF uploaded = <<>>
    THEN [store |-> s, status |-> "400",
          message |-> "No valid documents to process"]
    ELSE AfterDeleteAll(s, delete_all(s), uploaded, embed_fails)

\* clear that resets the globals and leaves the vector database alone
clear_data_without_delete(s) ==
    [uploaded_files |-> <<>>,
     cut_files |-> NoFiles,
     html_content_store |-> "",
     current_script_session |-> NoSession,
     store |-> s,
     status |-> "200",
     message |-> NoError]

\* DELETE /api/clear; with uploaded_files empty no file is named any more
clear_data(s) ==
    LET cleared == delete_all(s)
    IN  [uploaded_files |-> <<>>,
         cut_files |-> NoFiles,
         html_content_store |-> "",
         current_script_session |-> NoSession,
         store |-> cleared.store,
         status |-> IF cleared.raised = NoError THEN "200" ELSE "500",
         message |-> cleared.raised]

UploadDocuments ==
    \E files \in UploadLists :
      \E fails_at \in 0..(Len(files) + 1) :
        \E left \in LeftBy(files, fails_at) :
          LET r == upload_documents(uploaded_files, cut_files, files, fails_at, left)
          IN  /\ uploaded_files' = r.uploaded_files
              /\ cut_files' = r.cut_files
              /\ ret' = [NoCall EXCEPT !.op = "upload",
                                       !.status = r.status,
                                       !.message = r.message]
              /\ html_content_store' = IF r.resets THEN "" ELSE html_content_store
              /\ pre' = store
              /\ UNCHANGED <<store, current_script_session, tasks>>

BuildKnowledgeBase ==
    \E embed_fails \in EmbedderOutcomes(uploaded_files) :
      /\ Returns([NoCall EXCEPT !.op = "build_kb", !.embed_fails = embed_fails],
                 build_knowledge_base(store, uploaded_files, embed_fails))
      /\ UNCHANGED globals

ClearData ==
    LET r == clear_data(store)
    IN  /\ uploaded_files' = r.uploaded_files
        /\ html_content_store' = r.html_content_store
        /\ current_script_session' = r.current_script_session
        /\ store' = r.store
        /\ cut_files' = r.cut_files
        /\ pre' = store
        /\ UNCHANGED tasks
        /\ ret' = [NoCall EXCEPT !.op = "clear",
                                 !.status = r.status,
                                 !.message = r.message]

(***************************************************************************)
(* Calls of the chunker on its own.                                        *)
(***************************************************************************)
\* the characters of a text: letters, and the whitespace the splitter cuts at
Alphabet == {"a", "b", " ", "\n"}

Texts == SeqsUpTo(Alphabet, 0, MaxLen)

\* the metadata of a caller: the pipeline's, and one without a filename
Metadatas == { [filename |-> "m.md", type |-> "text", section |-> "main"],
               [type |-> "text"] }

\* DocumentChunker(chunk_size, chunk_overlap) for every configuration with
\* 0 <= chunk_overlap < chunk_size
Configurations ==
    {self \in [chunk_size : 1..MaxChunkSize, chunk_overlap : 0..MaxChunkSize] :
       self.chunk_overlap < self.chunk_size}

\* a caller holds a chunker, a text and a metadata mapping
InitChunker ==
    /\ store = EmptyStore
    /\ uploaded_files = <<>>
    /\ pre = EmptyStore
    /\ html_content_store = ""
    /\ current_script_session = NoSession
    /\ tasks = NoTasks
    /\ cut_files = NoFiles
    /\ \E self \in Configurations, text \in Texts, metadata \in Metadatas :
         ret = [NoCall EXCEPT !.op = "caller", !.chunker = self,
                              !.text = text, !.metadata = metadata]

\* chunker.chunk_document(text, metadata): it returns a list, and raises
\* nothing; the caller's mapping is what it was
ChunkDocument ==
    /\ ret.op = "caller"
    /\ ret' = [ret EXCEPT !.op = "chunk_document",
                          !.chunks = chunk_document(ret.chunker, ret.text,
                                                   ret.metadata)]
    /\ UNCHANGED <<store, pre, globals>>

(***************************************************************************)
(* RAGEngine (rag_engine.py) and SeleniumScriptGenerator (selenium_gen.py).*)
(* A reply of the LLM is a sequence of tokens: the words the code tests    *)
(* for (the fence, "json", "python") and the line break are tokens of     *)
(* their own, a JSON document or a line of code is one token.              *)
(***************************************************************************)
\* the markdown fence, three backquotes (a character these strings cannot
\* hold)
Fence == "~~~"

\* top_k of retrieve_context when the caller gives none
DefaultTopK == 5
\* top_k generate_script retrieves with
ScriptTopK == 3

\* retrieve_context that drops the results that are not at distance 0
retrieve_context_exact_only(s, query, top_k) ==
    {SelectSeq(results, LAMBDA r : r.distance = 0) :
        results \in search(s, Encode(query), top_k)}

\* RAGEngine.retrieve_context(query, top_k): the lists it can return
retrieve_context(s, query, top_k) == search(s, Encode(query), top_k)

\* what retrieve_context raises, if anything: what the search raises
retrieve_raises(s, query, top_k) == query_raises(s, Encode(query), top_k)

\* the documents json.loads reads from one token
JsonDocuments ==
    ("[tc]" :> <<[test_id |-> "TC-001", feature |-> "login"]>>) @@ ("[]" :> <<>>)

\* json.loads(content): the value, or raised when content is not JSON
json_loads(content) ==
    LET t == Strip(content)
    IN  IF Len(t) = 1 /\ t[1] \in DOMAIN JsonDocuments
        THEN [raised |-> FALSE, value |-> JsonDocuments[t[1]]]
        ELSE [raised |-> TRUE, value |-> <<>>]

\* test_data.get(key, default)
Get(test_data, key, default) ==
    IF key \in DOMAIN test_data THEN test_data[key] ELSE default

\* RAGEngine.format_test_case
format_test_case(test_data) ==
    [test_id |-> Get(test_data, "test_id", "TC-000"),
     feature |-> Get(test_data, "feature", ""),
     test_scenario |-> Get(test_data, "test_scenario", ""),
     expected_result |-> Get(test_data, "expected_result", ""),
     grounded_in |-> Get(test_data, "grounded_in", <<>>)]

\* content.startswith(token)
StartsWith(content, token) == content # <<>> /\ Head(content) = token

\* the JSON taken out of the reply: between the first fences, less "json"
ExtractJson(content) ==
    IF StartsWith(content, Fence)
    THEN LET inner == Pieces(content, <<Fence>>)[2]
         IN  IF StartsWith(inner, "json") THEN Tail(inner) ELSE inner
    ELSE content

\* the formatted cases of a parsed reply, [] when it does not parse
CasesOf(parsed) ==
    IF parsed.raised THEN <<>>
    ELSE [i \in 1..Len(parsed.value) |-> format_test_case(parsed.value[i])]

\* generate_test_cases that lets a failure of the LLM through to its caller
generate_test_cases_unguarded(context, reply) ==
    IF context = <<>> THEN [raised |-> NoError, cases |-> <<>>]
    ELSE IF reply.raised THEN [raised |-> "APIError", cases |-> <<>>]
    ELSE IF json_loads(ExtractJson(Strip(reply.content))).raised
         THEN [raised |-> "JSONDecodeError", cases |-> <<>>]
    ELSE [raised |-> NoError,
          cases |-> CasesOf(json_loads(ExtractJson(Strip(reply.content))))]

\* RAGEngine.generate_test_cases from the context on; reply: what the LLM
\* client does for the prompt (it raises, or it returns content)
generate_test_cases(context, reply) ==
    IF context = <<>> THEN [raised |-> NoError, cases |-> <<>>]
    ELSE IF reply.raised THEN [raised |-> NoError, cases |-> <<>>]
    ELSE [raised |-> NoError,
          cases |-> CasesOf(json_loads(ExtractJson(Strip(reply.content))))]

\* '\n'.join(lines)
RECURSIVE JoinLines(_)
JoinLines(lines) ==
    IF lines = <<>> THEN <<>>
    ELSE IF Len(lines) = 1 THEN lines[1]
    ELSE lines[1] \o <<"\n">> \o JoinLines(Tail(lines))

\* the script without the markdown fence around it
Unfence(script) ==
    IF StartsWith(script, Fence)
    THEN LET lines == Pieces(script, <<"\n">>)
             inner == IF Len(lines) > 2
                      THEN JoinLines(SubSeq(lines, 2, Len(lines) - 1))
                      ELSE script
         IN  IF StartsWith(inner, "python") THEN Strip(Tail(inner)) ELSE inner
    ELSE script

ScriptError == <<"# Error generating script">>

\* SeleniumScriptGenerator.generate_script from the prompt on
generate_script(reply) ==
    IF reply.raised THEN [raised |-> NoError, script |-> ScriptError]
    ELSE [raised |-> NoError, script |-> Unfence(Strip(reply.content))]

\* the LLM client is not called
NoReply == [raised |-> FALSE, content |-> <<>>]

\* what the LLM client can do for a prompt: raise, or return a content (a
\* JSON list bare or fenced, a script bare or fenced, other text)
LLMReplies ==
    { [raised |-> TRUE, content |-> <<>>],
      [raised |-> FALSE, content |-> <<"[tc]">>],
      [raised |-> FALSE, content |-> <<Fence, "json", "\n", "[tc]", "\n", Fence>>],
      [raised |-> FALSE, content |-> <<Fence, "\n", "[]", "\n", Fence>>],
      [raised |-> FALSE, content |-> <<"sorry">>],
      [raised |-> FALSE, content |-> <<"code", "\n">>],
      [raised |-> FALSE, content |-> <<Fence, "python", "\n", "code", "\n", Fence>>] }

\* the test cases the script generator is called with
TestCases == { [test_id |-> "TC-001", feature |-> <<"a", "b">>,
                test_scenario |-> <<"d">>] }

\* f"{test_case['feature']} {test_case['test_scenario']}"
ScriptQuery(test_case) == test_case.feature \o <<" ">> \o test_case.test_scenario

\* the lists the retrieval can hand on, one empty list when it raises
Retrieved(s, query, top_k) ==
    IF retrieve_raises(s, query, top_k) = NoError
    THEN retrieve_context(s, query, top_k) ELSE {<<>>}

\* the call ends: ret records it, the store is the one it found
Ends(call, raised, result) ==
    /\ ret' = [call EXCEPT !.status = IF raised = NoError THEN "ok" ELSE "raised",
                           !.message = raised,
                           !.result = result]
    /\ pre' = store
    /\ UNCHANGED <<store, globals>>

RetrieveContext ==
    \E query \in QueryTexts, top_k \in (1..MaxTopK) \cup {DefaultTopK} :
      \E results \in Retrieved(store, query, top_k) :
        Ends([NoCall EXCEPT !.op = "retrieve_context", !.text = query, !.k = top_k],
             retrieve_raises(store, query, top_k), results)

\* generate_test_cases(query): the retrieval raises to the caller, or the
\* rest runs on the context it returned (the LLM is called when it is not
\* empty)
TestCasesFrom(call, retrieval_raised, r) ==
    Ends(call,
         IF retrieval_raised # NoError THEN retrieval_raised ELSE r.raised,
         IF retrieval_raised # NoError THEN <<>> ELSE r.cases)

GenerateTestCases ==
    \E query \in QueryTexts :
      \E context \in Retrieved(store, query, DefaultTopK) :
        \E reply \in (IF context = <<>> THEN {NoReply} ELSE LLMReplies) :
          TestCasesFrom([NoCall EXCEPT !.op = "generate_test_cases",
                                       !.text = query,
                                       !.k = DefaultTopK,
                                       !.context = context,
                                       !.reply = reply],
                        retrieve_raises(store, query, DefaultTopK),
                        generate_test_cases(context, reply))

\* generate_script(test_case, html_content): the retrieval raises to the
\* caller, or the LLM is called and the script (or the error text) returned
ScriptFrom(call, retrieval_raised, r) ==
    Ends(call,
         IF retrieval_raised # NoError THEN retrieval_raised ELSE r.raised,
         IF retrieval_raised # NoError THEN <<>> ELSE r.script)

GenerateScript ==
    \E test_case \in TestCases :
      \E context \in Retrieved(store, ScriptQuery(test_case), ScriptTopK) :
        \E reply \in (IF retrieve_raises(store, ScriptQuery(test_case), ScriptTopK)
                          = NoError THEN LLMReplies ELSE {NoReply}) :
          ScriptFrom([NoCall EXCEPT !.op = "generate_script",
                                    !.text = ScriptQuery(test_case),
                                    !.k = ScriptTopK,
                                    !.context = context,
                                    !.reply = reply],
                     retrieve_raises(store, ScriptQuery(test_case), ScriptTopK),
                     generate_script(reply))

(***************************************************************************)
(* Requests of the service about the HTML and the scripts (main.py).       *)
(***************************************************************************)
\* the bodies of POST /api/upload_html: with a content, and without
HtmlBodies == { [content |-> "<html>"], [other |-> "x"] }

\* html_content.get('content', '')
upload_html_content(html_content) ==
    IF "content" \in DOMAIN html_content THEN html_content["content"] ELSE ""

UploadHtmlContent ==
    \E html_content \in HtmlBodies :
      /\ html_content_store' = upload_html_content(html_content)
      /\ ret' = [NoCall EXCEPT !.op = "upload_html", !.status = "200"]
      /\ pre' = store
      /\ UNCHANGED <<store, uploaded_files, current_script_session, tasks, cut_files>>

\* datetime.now().strftime("%Y%m%d_%H%M%S") at two moments
Timestamps == {"20260101_000000", "20260101_000001"}

\* POST /api/generate_script: the session folder is created when there is
\* none, then the generator runs (its retrieval may raise, which answers 500)
generate_selenium_script(session, timestamp, retrieval_raised, r) ==
    [current_script_session |-> IF session = NoSession THEN timestamp ELSE session,
     status |-> IF retrieval_raised # NoError THEN "500" ELSE "200",
     message |-> retrieval_raised,
     script |-> IF retrieval_raised # NoError THEN <<>> ELSE r.script]

\* the handler has returned r
ScriptAnswered(call, r) ==
    /\ current_script_session' = r.current_script_session
    /\ ret' = [call EXCEPT !.status = r.status, !.message = r.message,
                           !.result = r.script]
    /\ pre' = store
    /\ UNCHANGED <<store, uploaded_files, html_content_store, tasks, cut_files>>

GenerateSeleniumScript ==
    \E test_case \in TestCases, timestamp \in Timestamps :
      \E reply \in (IF retrieve_raises(store, ScriptQuery(test_case), ScriptTopK)
                        = NoError THEN LLMReplies ELSE {NoReply}) :
        ScriptAnswered([NoCall EXCEPT !.op = "generate_script_request",
                                      !.text = ScriptQuery(test_case),
                                      !.reply = reply],
                       generate_selenium_script(
                           current_script_session, timestamp,
                           retrieve_raises(store, ScriptQuery(test_case), ScriptTopK),
                           generate_script(reply)))

\* POST /api/reset_script_session
ResetScriptSession ==
    /\ current_script_session' = NoSession
    /\ ret' = [NoCall EXCEPT !.op = "reset_script_session", !.status = "200"]
    /\ pre' = store
    /\ UNCHANGED <<store, uploaded_files, html_content_store, tasks, cut_files>>

(***************************************************************************)
(* Two callers of the store, each clearing it and then building its batch  *)
(* (delete_all followed by add_documents, as build_kb does), with or       *)
(* without a lock around the two calls.  The callers are threads on one    *)
(* ChromaVectorDB: a step is one call into the client, one read or one     *)
(* assignment of self.collection, and without the lock the steps of the    *)
(* two callers come in any order.  A collection object reaches the         *)
(* collection it was made for; once delete_collection has deleted that     *)
(* one, the object reaches nothing (a collection created later under the   *)
(* same name is another one).  tasks holds whether the callers of this     *)
(* round take the lock, each caller's batch and position, the holder of    *)
(* the lock (0: free), whether self.collection reaches the client's        *)
(* collection, whether the object each caller has in hand does (FALSE when *)
(* it has none in hand), the callers in the order their add_documents      *)
(* returned, and whether an earlier round without the lock ended with a    *)
(* store that is neither batch alone.                                      *)
(***************************************************************************)
Callers == {1, 2}

\* the batches a build hands to add_documents: the chunks of one file
BuildBatches == {FileChunks[path][FileText(path)].chunks : path \in Paths} \ {<<>>}

\* the records of store s are those of neither batch alone
NeitherAlone(s, batches) ==
    \A c \in Callers :
      s.recs # [id \in {batches[c][i].id : i \in 1..Len(batches[c])} |->
                 LET chunk == batches[c][CHOOSE i \in 1..Len(batches[c]) :
                                           batches[c][i].id = id]
                 IN  [document |-> chunk.content, metadata |-> chunk.metadata,
                      embedding |-> Encode(chunk.content)]]

\* ChromaVectorDB.__init__ has made the collection and self.collection
InitCallers ==
    /\ store = EmptyStore
    /\ uploaded_files = <<>>
    /\ ret = NoCall
    /\ pre = EmptyStore
    /\ html_content_store = ""
    /\ current_script_session = NoSession
    /\ cut_files = NoFiles
    /\ \E serialized \in BOOLEAN, batch \in [Callers -> BuildBatches] :
         tasks = [serialized |-> serialized, batch |-> batch,
                  pc |-> [c \in Callers |-> "start"], lock |-> 0,
                  collection |-> TRUE, held |-> [c \in Callers |-> FALSE],
                  order |-> <<>>, mixed |-> FALSE]

\* caller c enters delete_all (main.py line 147) and calls
\* client.delete_collection (chroma_db.py line 57); under the lock
\* discipline it first takes the lock, which it gets when nobody holds it.
\* When the call raises, delete_all raises and the caller's sequence ends;
\* when it deletes the collection, no collection object reaches one any more
CallerDeleteCollection(c) ==
    /\ tasks.pc[c] = "start"
    /\ tasks.serialized => tasks.lock = 0
    /\ store' = delete_collection(store).store
    /\ pre' = store
    /\ IF delete_collection(store).raised # NoError
       THEN /\ ret' = [NoCall EXCEPT !.op = "delete_all", !.status = "raised",
                                     !.message = delete_collection(store).raised]
            /\ tasks' = [tasks EXCEPT !.pc[c] = "done"]
       ELSE /\ ret' = ret
            /\ tasks' = [tasks EXCEPT !.pc[c] = "deleted",
                                      !.lock = IF tasks.serialized THEN c ELSE 0,
                                      !.collection = FALSE,
                                      !.held = [d \in Callers |-> FALSE]]
    /\ UNCHANGED <<uploaded_files, html_content_store, current_script_session,
                   cut_files>>

\* caller c calls client.get_or_create_collection (the right-hand side of
\* chroma_db.py line 58) and has the collection object in hand
CallerGetOrCreate(c) ==
    /\ tasks.pc[c] = "deleted"
    /\ store' = get_or_create_collection(store)
    /\ pre' = store
    /\ tasks' = [tasks EXCEPT !.pc[c] = "created", !.held[c] = TRUE]
    /\ UNCHANGED <<ret, uploaded_files, html_content_store, current_script_session,
                   cut_files>>

\* caller c assigns the object in its hand to self.collection (the
\* assignment of chroma_db.py line 58), and delete_all returns
CallerAssigns(c) ==
    /\ tasks.pc[c] = "created"
    /\ ret' = [NoCall EXCEPT !.op = "delete_all", !.status = "ok"]
    /\ pre' = store
    /\ tasks' = [tasks EXCEPT !.pc[c] = "cleared",
                              !.collection = tasks.held[c],
                              !.held[c] = FALSE]
    /\ UNCHANGED <<store, uploaded_files, html_content_store, current_script_session,
                   cut_files>>

\* ChromaVectorDB.delete_all as caller c runs it, step by step
CallerDeleteAll(c) ==
    \/ CallerDeleteCollection(c)
    \/ CallerGetOrCreate(c)
    \/ CallerAssigns(c)

\* caller c enters add_documents with its batch and the vectors of its
\* contents (ingest.py lines 199 to 203) and reads self.collection
\* (chroma_db.py line 29)
CallerReads(c) ==
    /\ tasks.pc[c] = "cleared"
    /\ tasks' = [tasks EXCEPT !.pc[c] = "adding", !.held[c] = tasks.collection]
    /\ UNCHANGED <<store, ret, pre, uploaded_files, html_content_store,
                   current_script_session, cut_files>>

\* caller c calls add on the object it read (chroma_db.py lines 29 to 34),
\* which reaches the client's collection or one that has been deleted;
\* add_documents returns or raises, and the caller gives the lock back
CallerAdds(c) ==
    /\ tasks.pc[c] = "adding"
    /\ LET r == add_documents(IF tasks.held[c] THEN store
                              ELSE [exists |-> FALSE, dim |-> 0, recs |-> NoRecords],
                              tasks.batch[c],
                              generate_embeddings(Contents(tasks.batch[c])))
       IN  /\ store' = IF r.raised = NoError THEN r.store ELSE store
           /\ ret' = [NoCall EXCEPT !.op = "add_documents",
                                    !.status = IF r.raised = NoError THEN "ok" ELSE "raised",
                                    !.message = r.raised,
                                    !.chunks = tasks.batch[c]]
    /\ pre' = store
    /\ tasks' = [tasks EXCEPT !.pc[c] = "done", !.lock = 0, !.held[c] = FALSE,
                              !.order = Append(tasks.order, c)]
    /\ UNCHANGED <<uploaded_files, html_content_store, current_script_session,
                   cut_files>>

\* ChromaVectorDB.add_documents as caller c runs it, step by step
CallerAddDocuments(c) ==
    \/ CallerReads(c)
    \/ CallerAdds(c)

\* both callers are done: two more come, on the store and the
\* self.collection the round left
NextRound ==
    /\ \A c \in Callers : tasks.pc[c] = "done"
    /\ \E serialized \in BOOLEAN, batch \in [Callers -> BuildBatches] :
         tasks' = [serialized |-> serialized, batch |-> batch,
                   pc |-> [c \in Callers |-> "start"], lock |-> 0,
                   collection |-> tasks.collection,
                   held |-> [c \in Callers |-> FALSE],
                   order |-> <<>>,
                   mixed |-> tasks.mixed
                               \/ (~tasks.serialized /\ NeitherAlone(store, tasks.batch))]
    /\ UNCHANGED <<store, uploaded_files, ret, pre,
                   html_content_store, current_script_session, cut_files>>

NextCallers ==
    \/ \E c \in Callers : CallerDeleteAll(c)
    \/ \E c \in Callers : CallerAddDocuments(c)
    \/ NextRound

SpecCallers == InitCallers /\ [][NextCallers]_vars

(***************************************************************************)
(* The handlers on the event loop.  Every handler of main.py is a          *)
(* coroutine (async def) run by one event loop: once the loop has started  *)
(* a handler, no other handler runs until this one reaches an await or     *)
(* returns.  tasks holds the handler that has the loop (0: none) and, for  *)
(* each request in progress, its endpoint and its position: "ready"        *)
(* before its first statement, "ingest" for a build_kb between its         *)
(* delete_all and its ingest_documents, "idle" when the slot is free.      *)
(***************************************************************************)
Requests == {1, 2}

Endpoints == {"upload", "build_kb", "clear", "generate_tests", "generate_script"}

NoRequest == [op |-> "none", pc |-> "idle"]

\* the uploads of these requests: one file, of the first session directory
LoopUploads == {<<path>> : path \in {f \in Paths : f.dir = "s1" /\ f.suffix # ".bin"}}

\* a build_kb with an await between delete_all and ingest_documents
SuspendsAfterDeleteAll(op, pc) == op = "build_kb" /\ pc = "ingest"

\* whether the handler of op gives the loop up on reaching pc: no handler
\* of main.py holds an await, a build_kb runs from its first statement to
\* its return
Suspends(op, pc) == FALSE

InitLoop ==
    /\ store = EmptyStore
    /\ uploaded_files = <<>>
    /\ ret = NoCall
    /\ pre = EmptyStore
    /\ html_content_store = ""
    /\ current_script_session = NoSession
    /\ tasks = [running |-> 0, req |-> [t \in Requests |-> NoRequest]]
    /\ cut_files = NoFiles

\* a request for an endpoint comes in
Arrives(t) ==
    /\ tasks.req[t] = NoRequest
    /\ \E op \in Endpoints :
         tasks' = [tasks EXCEPT !.req[t] = [op |-> op, pc |-> "ready"]]
    /\ UNCHANGED <<store, uploaded_files, ret, pre,
                   html_content_store, current_script_session, cut_files>>

\* the loop can run the handler of request t, which is at pc in op: the
\* loop is free, or this handler has it
Turn(t, op, pc) ==
    /\ tasks.req[t] = [op |-> op, pc |-> pc]
    /\ tasks.running \in {0, t}

\* the handler of t has returned or raised: its response is sent
Done(t) ==
    tasks' = [tasks EXCEPT !.req[t] = NoRequest, !.running = 0]

\* the handler of t has reached pc: it keeps the loop unless it awaits there
Reaches(t, pc) ==
    tasks' = [tasks EXCEPT !.req[t].pc = pc,
                           !.running = IF Suspends(tasks.req[t].op, pc) THEN 0 ELSE t]

Answers(op, status, message) ==
    /\ ret' = [NoCall EXCEPT !.op = op, !.status = status, !.message = message]
    /\ pre' = store

HandleUpload(t) ==
    /\ Turn(t, "upload", "ready")
    /\ \E files \in LoopUploads :
         \E fails_at \in 0..(Len(files) + 1) :
           \E left \in LeftBy(files, fails_at) :
             LET r == upload_documents(uploaded_files, cut_files, files, fails_at, left)
             IN  /\ uploaded_files' = r.uploaded_files
                 /\ cut_files' = r.cut_files
                 /\ html_content_store' = IF r.resets THEN "" ELSE html_content_store
                 /\ Answers("upload", r.status, r.message)
    /\ Done(t)
    /\ UNCHANGED <<store, current_script_session>>

HandleClear(t) ==
    /\ Turn(t, "clear", "ready")
    /\ LET r == clear_data(store)
       IN  /\ uploaded_files' = r.uploaded_files
           /\ html_content_store' = r.html_content_store
           /\ current_script_session' = r.current_script_session
           /\ store' = r.store
           /\ cut_files' = r.cut_files
           /\ Answers("clear", r.status, r.message)
    /\ Done(t)

\* POST /api/generate_tests: the search of rag_engine.generate_test_cases
\* raises (500) or the handler answers with the cases or the warning
HandleGenerateTests(t) ==
    /\ Turn(t, "generate_tests", "ready")
    /\ \E query \in QueryTexts :
         LET raised == retrieve_raises(store, query, DefaultTopK)
         IN  Answers("generate_tests",
                     IF raised = NoError THEN "200" ELSE "500", raised)
    /\ Done(t)
    /\ UNCHANGED <<store, uploaded_files, html_content_store, current_script_session,
                   cut_files>>

HandleGenerateScript(t) ==
    /\ Turn(t, "generate_script", "ready")
    /\ \E test_case \in TestCases, timestamp \in Timestamps :
         LET r == generate_selenium_script(
                      current_script_session, timestamp,
                      retrieve_raises(store, ScriptQuery(test_case), ScriptTopK),
                      [raised |-> NoError, script |-> <<>>])
         IN  /\ current_script_session' = r.current_script_session
             /\ Answers("generate_script", r.status, r.message)
    /\ Done(t)
    /\ UNCHANGED <<store, uploaded_files, html_content_store, cut_files>>

\* build_kb from its first statement to the return of delete_all
\* (main.py lines 140 to 147)
HandleBuildKbClear(t) ==
    /\ Turn(t, "build_kb", "ready")
    /\ IF uploaded_files = <<>>
       THEN /\ Answers("build_kb", "400", "No valid documents to process")
            /\ Done(t)
            /\ UNCHANGED store
       ELSE LET cleared == delete_all(store)
            IN  /\ store' = cleared.store
                /\ IF cleared.raised # NoError
                   THEN Answers("build_kb", "500", cleared.raised) /\ Done(t)
                   ELSE Answers("delete_all", "ok", NoError) /\ Reaches(t, "ingest")
    /\ UNCHANGED <<uploaded_files, html_content_store, current_script_session,
                   cut_files>>

\* the handler of t answers with what build_kb made of the ingestion
Built(t, r) ==
    /\ store' = r.store
    /\ Answers("build_kb", r.status, r.message)
    /\ Done(t)

\* build_kb from the call of ingest_documents to its response
\* (main.py lines 149 to 162)
HandleBuildKbIngest(t) ==
    /\ Turn(t, "build_kb", "ingest")
    /\ \E embed_fails \in EmbedderOutcomes(uploaded_files) :
         Built(t, AfterIngest(ingest_documents(store, uploaded_files, embed_fails)))
    /\ UNCHANGED <<uploaded_files, html_content_store, current_script_session,
                   cut_files>>

NextLoop ==
    \/ \E t \in Requests : Arrives(t)
    \/ \E t \in Requests : HandleUpload(t)
    \/ \E t \in Requests : HandleClear(t)
    \/ \E t \in Requests : HandleGenerateTests(t)
    \/ \E t \in Requests : HandleGenerateScript(t)
    \/ \E t \in Requests : HandleBuildKbClear(t)
    \/ \E t \in Requests : HandleBuildKbIngest(t)

SpecLoop == InitLoop /\ [][NextLoop]_vars

(***************************************************************************)
(* Searches of two callers at once.  A call of search is the call of       *)
(* collection.query and then the format loop over what it answered; a call *)
(* of retrieve_context embeds its query first.  The steps of the two calls *)
(* come in any order, on one store that nobody writes to meanwhile.        *)
(***************************************************************************)
Searchers == {1, 2}

\* the store with the chunks of the file at a path added to it
WithFile(s, path) ==
    LET chunks == FileChunks[path][FileText(path)].chunks
    IN  add_documents(s, chunks, generate_embeddings(Contents(chunks))).store

\* the stores the callers search: without a record, with the two chunks of
\* one file, with the chunk of a second file too
SearchedStores ==
    LET a == [dir |-> "s1", stem |-> "a", suffix |-> ".txt"]
        b == [dir |-> "s1", stem |-> "b", suffix |-> ".JSON"]
    IN  {EmptyStore, WithFile(EmptyStore, a), WithFile(WithFile(EmptyStore, a), b)}

\* a call as its caller makes it: search with a vector, retrieve_context
\* with a text
SearcherCalls ==
    {[op |-> "search", text |-> <<>>, query |-> query, k |-> top_k,
      pc |-> "search", begun |-> FALSE, raised |-> NoError, results |-> <<>>] :
        query \in Queries, top_k \in 1..MaxTopK}
      \cup
    {[op |-> "retrieve_context", text |-> text, query |-> <<>>, k |-> top_k,
      pc |-> "embed", begun |-> FALSE, raised |-> NoError, results |-> <<>>] :
        text \in QueryTexts, top_k \in (1..MaxTopK) \cup {DefaultTopK}}

\* a search whose query takes the records it answers with out of the
\* collection
search_query_popping(s, query, top_k, hits) ==
    LET raised == query_raises(s, query, top_k)
    IN  [store |-> IF raised = NoError
                   THEN [s EXCEPT !.recs = [id \in Ids(s) \ Range(hits) |-> s.recs[id]]]
                   ELSE s,
         raised |-> raised,
         results |-> IF raised = NoError THEN FormatResults(s, query, hits) ELSE <<>>]

\* the call of collection.query in ChromaVectorDB.search, the index
\* answering with hits: what it raises, the results it hands to the format
\* loop, and the collection after it
search_query(s, query, top_k, hits) ==
    LET raised == query_raises(s, query, top_k)
    IN  [store |-> s,
         raised |-> raised,
         results |-> IF raised = NoError THEN FormatResults(s, query, hits) ELSE <<>>]

InitSearchers ==
    /\ uploaded_files = <<>>
    /\ ret = NoCall
    /\ html_content_store = ""
    /\ current_script_session = NoSession
    /\ cut_files = NoFiles
    /\ store \in SearchedStores
    /\ pre = store
    /\ \E call \in [Searchers -> SearcherCalls] :
         tasks = [call |-> call, mixed |-> FALSE]

\* caller c takes a step to pc: its call is as given from then on, and the
\* round is a mixed one when the other caller has begun its call and not
\* returned from it
SearcherSteps(c, call) ==
    tasks' = [tasks EXCEPT !.call[c] = [call EXCEPT !.begun = TRUE],
                           !.mixed = @ \/ \E d \in Searchers \ {c} :
                                            /\ tasks.call[d].begun
                                            /\ tasks.call[d].pc # "returned"]

\* retrieve_context encodes its query (rag_engine.py line 91)
SearcherEmbeds(c) ==
    /\ tasks.call[c].pc = "embed"
    /\ SearcherSteps(c, [tasks.call[c] EXCEPT
                           !.query = generate_embeddings(<<tasks.call[c].text>>)[1],
                           !.pc = "search"])
    /\ UNCHANGED <<store, pre, ret, uploaded_files, html_content_store,
                   current_script_session, cut_files>>

\* the call of c has made its query and holds r
SearcherQueried(c, r) ==
    /\ store' = r.store
    /\ SearcherSteps(c, [tasks.call[c] EXCEPT
                           !.raised = r.raised,
                           !.results = r.results,
                           !.pc = IF r.raised = NoError THEN "format" ELSE "returned"])

\* search calls collection.query (chroma_db.py lines 38 to 41), which
\* answers or raises
SearcherQueries(c) ==
    /\ tasks.call[c].pc = "search"
    /\ LET call == tasks.call[c]
       IN  \E hits \in (IF query_raises(store, call.query, call.k) = NoError
                        THEN collection_query(store, call.query, call.k)
                        ELSE {<<>>}) :
             SearcherQueried(c, search_query(store, call.query, call.k, hits))
    /\ UNCHANGED <<pre, ret, uploaded_files, html_content_store,
                   current_script_session, cut_files>>

\* the format loop has run over the results: the list is returned
SearcherReturns(c) ==
    /\ tasks.call[c].pc = "format"
    /\ SearcherSteps(c, [tasks.call[c] EXCEPT !.pc = "returned"])
    /\ UNCHANGED <<store, pre, ret, uploaded_files, html_content_store,
                   current_script_session, cut_files>>

NextSearchers ==
    \/ \E c \in Searchers : SearcherEmbeds(c)
    \/ \E c \in Searchers : SearcherQueries(c)
    \/ \E c \in Searchers : SearcherReturns(c)

SpecSearchers == InitSearchers /\ [][NextSearchers]_vars

Next ==
    \/ AddDocuments
    \/ Search
    \/ DeleteAll
    \/ IngestDocuments

Spec == Init /\ [][Next]_vars

NextService ==
    \/ UploadDocuments
    \/ UploadHtmlContent
    \/ BuildKnowledgeBase
    \/ GenerateSeleniumScript
    \/ ResetScriptSession
    \/ ClearData

SpecService == Init /\ [][NextService]_vars

NextChunker == ChunkDocument

NextRag ==
    \/ AddDocuments
    \/ IngestDocuments
    \/ DeleteAll
    \/ Search
    \/ RetrieveContext
    \/ GenerateTestCases
    \/ GenerateScript

SpecRag == Init /\ [][NextRag]_vars

SpecChunker == InitChunker /\ [][NextChunker]_vars

(***************************************************************************)
(* Properties.  ret holds the last call, pre the store it started from.    *)
(***************************************************************************)
DistinctIds(chunks) ==
    \A i, j \in 1..Len(chunks) : i # j => chunks[i].id # chunks[j].id

\* the record a chunk of the pipeline is meant to be stored as
RecordOf(chunk) ==
    [document |-> chunk.content, metadata |-> chunk.metadata,
     embedding |-> Encode(chunk.content)]

\* some stage of ingest_documents(file_paths) on store s fails
SomeStageFails(s, file_paths, embed_fails) ==
    LET a == Assemble(file_paths)
    IN  \/ a.raised
        \/ /\ a.chunks # <<>>
           /\ \/ embed_fails
              \/ add_documents(s, a.chunks,
                               generate_embeddings(Contents(a.chunks))).raised # NoError

\* C1: all-or-nothing ingestion.  When extraction, embedding or insertion
\* fails for a batch, ingest_documents returns status "error", and whenever
\* it returns "error" the store holds exactly the records it held before.
C1_AllOrNothing ==
    ret.op = "ingest_documents" =>
      /\ SomeStageFails(pre, ret.paths, ret.embed_fails) => ret.status = "error"
      /\ ret.status = "error" => store = pre

\* C1: a batch whose second file fails after the first was chunked, on a
\* store that already holds records
C1_Witness ==
    /\ ret.op = "ingest_documents"
    /\ ret.status = "error"
    /\ Assemble(ret.paths).raised
    /\ Assemble(ret.paths).chunks # <<>>
    /\ Ids(pre) # {}

\* every file of the batch yields zero chunks and none raises (also: no file)
ZeroChunks(file_paths) ==
    ~Assemble(file_paths).raised /\ Assemble(file_paths).chunks = <<>>

\* C2 as claimed: with zero documents, or zero chunks from every document,
\* ingest_documents returns status "error" with the message
\* "no valid documents to process" and leaves the store as it was.
C2_AsClaimed ==
    (ret.op = "ingest_documents" /\ ZeroChunks(ret.paths)) =>
      /\ ret.status = "error"
      /\ ret.message = "no valid documents to process"
      /\ store = pre

\* C2, amended: with zero documents, or zero chunks from every document,
\* ingest_documents returns status "error" with the message
\* "No valid documents to process" and leaves the store as it was.
C2_NoValidDocuments ==
    (ret.op = "ingest_documents" /\ ZeroChunks(ret.paths)) =>
      /\ ret.status = "error"
      /\ ret.message = "No valid documents to process"
      /\ store = pre

\* C2: two files, one skipped for its extension and one with empty text, on
\* a store that holds records
C2_Witness ==
    /\ ret.op = "ingest_documents"
    /\ ZeroChunks(ret.paths)
    /\ \E i, j \in 1..Len(ret.paths) :
          /\ Lower(ret.paths[i].suffix) = ".bin"
          /\ Lower(ret.paths[j].suffix) = ".txt"
    /\ Ids(pre) # {}

\* the records a list of chunks with distinct ids is stored as
RecordsOf(chunks) ==
    [id \in {chunks[i].id : i \in 1..Len(chunks)} |->
       RecordOf(chunks[CHOOSE i \in 1..Len(chunks) : chunks[i].id = id])]

\* C3: replace-whole-knowledge-base.  Whenever build_kb answers 200, the
\* store holds exactly the chunks of the files the latest upload recorded in
\* uploaded_files, read as they are on disk (a file that a failed second
\* write of the upload cut short gives the chunks of what is left of it),
\* and nothing else.
C3_ReplaceWholeKnowledgeBase ==
    (ret.op = "build_kb" /\ ret.status = "200") =>
      /\ DistinctIds(Assemble(uploaded_files).chunks)
      /\ store.recs = RecordsOf(Assemble(uploaded_files).chunks)

\* C3: a successful build on a store that held a record of an earlier build
\* which the new files do not give, after an upload whose second write of a
\* file failed and left the recorded file cut short
C3_Witness ==
    /\ ret.op = "build_kb"
    /\ ret.status = "200"
    /\ Ids(pre) \ Ids(store) # {}
    /\ Ids(store) # {}
    /\ \E path \in DOMAIN cut_files :
         /\ path \in Range(uploaded_files)
         /\ cut_files[path] # FileText(path)

\* the ids add_documents gives the chunks of a batch
BatchIds(chunks) == [i \in 1..Len(chunks) |-> IdOf(chunks[i], i - 1)]

\* the last position of the batch that carries this id
LastIndexOf(ids, id) ==
    CHOOSE i \in 1..Len(ids) : ids[i] = id /\ \A j \in (i + 1)..Len(ids) : ids[j] # id

\* the vectors of the call are of the dimension the store has, if it has one
DimensionFits(s, vector) == s.dim = 0 \/ Len(vector) = s.dim

\* C4 as claimed: an add_documents call does not fail because an id exists
\* already (in the store or earlier in the batch), and afterwards every id of
\* the batch holds the content, metadata and vector of its latest insertion.
C4_InsertOverwritesById ==
    (ret.op = "add_documents" /\ DimensionFits(pre, ret.embeddings[1])) =>
      /\ ret.status = "ok"
      /\ \A i \in 1..Len(ret.chunks) :
           LET ids == BatchIds(ret.chunks)
               last == LastIndexOf(ids, ids[i])
           IN  /\ ids[i] \in Ids(store)
               /\ store.recs[ids[i]] = [document |-> ret.chunks[last].content,
                                        metadata |-> ret.chunks[last].metadata,
                                        embedding |-> ret.embeddings[last]]

\* C5 as claimed: the ids of the chunks assembled for one ingest_documents
\* call are pairwise distinct.
C5_ChunkIdsUnique ==
    ret.op = "ingest_documents" => DistinctIds(Assemble(ret.paths).chunks)

\* C6: search on a store without records returns the empty list and raises
\* nothing, for every query vector and every top_k > 0, and leaves the store
\* as it is; delete_all leaves the store as a freshly created one.
C6_SearchEmptyStore ==
    /\ (ret.op = "search" /\ Ids(pre) = {}) =>
         /\ ret.status = "ok"
         /\ ret.result = <<>>
         /\ store = pre
    /\ (ret.op = "delete_all") => store = EmptyStore

\* C6: a search that found the store empty
C6_Witness ==
    /\ ret.op = "search"
    /\ ret.k > 0
    /\ Ids(pre) = {}
    /\ ret.result = <<>>

\* C7: delete_all is idempotent and safe on an empty store.  From every
\* reachable store a delete_all and a second one after it both return
\* without raising and leave the same store, the empty usable collection;
\* and a delete_all that ran did so.
C7_DeleteAllIdempotent ==
    LET once == delete_all(store)
        twice == delete_all(once.store)
    IN  /\ once.raised = NoError
        /\ twice.raised = NoError
        /\ twice.store = once.store
        /\ once.store = EmptyStore
        /\ ret.op = "delete_all" => (ret.status = "ok" /\ store = once.store)

\* C7: a delete_all that found the store already empty
C7_Witness ==
    /\ ret.op = "delete_all"
    /\ ret.status = "ok"
    /\ pre = EmptyStore
    /\ store = EmptyStore

\* the store has a dimension and the vector is of another
Mismatch(s, vector) == s.dim # 0 /\ Len(vector) # s.dim

\* the ingest_documents call got as far as add_documents
ReachesAdd == ReachesEmbedder(ret.paths) /\ ~ret.embed_fails

\* C9 as claimed: once the store holds records of dimension d, every
\* add_documents with vectors of another length and every search with a
\* query of another length fails with the dimension error.
C9_AsClaimed ==
    /\ (ret.op = "add_documents" /\ Mismatch(pre, ret.embeddings[1])) =>
         (ret.status = "raised" /\ ret.message = "InvalidDimensionException")
    /\ (ret.op = "search" /\ Mismatch(pre, ret.query)) =>
         (ret.status = "raised" /\ ret.message = "InvalidDimensionException")

\* C10 as claimed: after a successful ingest_documents there is one vector
\* per chunk, and the record under chunk i's id carries chunk i's content,
\* chunk i's metadata and the vector of chunk i's content.
C10_IndexAlignment ==
    (ret.op = "ingest_documents" /\ ret.status = "success") =>
      LET chunks == Assemble(ret.paths).chunks
          embeddings == generate_embeddings(Contents(chunks))
      IN  /\ Len(embeddings) = Len(chunks)
          /\ \A i \in 1..Len(chunks) :
               /\ chunks[i].id \in Ids(store)
               /\ store.recs[chunks[i].id] = RecordOf(chunks[i])

RECURSIVE OccurInOrder(_, _, _)
\* the segments occur in the text one after the other: each starts at a
\* position from the given one on, and the next one no earlier (a chunk that lost
\* leading whitespace to the trimming starts where its successor does)
OccurInOrder(text, segments, from) ==
    \/ segments = <<>>
    \/ \E p \in from..(Len(text) - Len(Head(segments)) + 1) :
         /\ SubSeq(text, p, p + Len(Head(segments)) - 1) = Head(segments)
         /\ OccurInOrder(text, Tail(segments), p)

\* C11: the chunk_index values of the chunks of one chunk_document call are
\* 0, 1, ..., n-1 in the order of the list, the contents occur in the source
\* text in that order, and every call numbers from 0.
C11_ChunkIndexContiguous ==
    ret.op = "chunk_document" =>
      /\ \A k \in 1..Len(ret.chunks) : ret.chunks[k].metadata["chunk_index"] = k - 1
      /\ OccurInOrder(ret.text, Contents(ret.chunks), 1)

\* C11: a text cut into three chunks or more
C11_Witness ==
    /\ ret.op = "chunk_document"
    /\ Len(ret.chunks) >= 3
    /\ ret.chunks[Len(ret.chunks)].metadata["chunk_index"] = Len(ret.chunks) - 1
    /\ ret.chunks[1].content # ret.chunks[2].content

\* C12: a chunk_document call gives its k-th chunk (k from 0) the id
\* filename + "_" + k with the filename of the metadata ("doc" when it has
\* none) and a metadata mapping with every key and value of the caller's
\* plus chunk_index = k, and leaves the caller's mapping as it was.
C12_IdAndMetadata ==
    [][ChunkDocument =>
         /\ ret'.metadata = ret.metadata
         /\ \A k \in 1..Len(ret'.chunks) :
              LET chunk == ret'.chunks[k]
              IN  /\ chunk.id = (IF "filename" \in DOMAIN ret.metadata
                                 THEN ret.metadata["filename"] ELSE "doc")
                                  \o "_" \o ToString(k - 1)
                  /\ DOMAIN chunk.metadata = DOMAIN ret.metadata \cup {"chunk_index"}
                  /\ \A f \in DOMAIN ret.metadata : chunk.metadata[f] = ret.metadata[f]
                  /\ chunk.metadata["chunk_index"] = k - 1]_vars

\* C12: two chunks of the pipeline's metadata, the second named "m.md_1"
C12_Witness ==
    /\ ret.op = "chunk_document"
    /\ Len(ret.chunks) >= 2
    /\ ret.chunks[2].id = "m.md_1"
    /\ ret.chunks[2].metadata["section"] = "main"

\* C13: for every text and every chunker with 0 <= chunk_overlap <
\* chunk_size, every chunk has a content that is not empty and not longer
\* than the chunker's chunk_size, also for a text that is one word longer
\* than chunk_size.
C13_ChunkLengthBounded ==
    ret.op = "chunk_document" =>
      \A k \in 1..Len(ret.chunks) :
        /\ ret.chunks[k].content # <<>>
        /\ Len(ret.chunks[k].content) <= ret.chunker.chunk_size

\* C13: a chunker with the largest overlap its chunk_size allows cut one
\* word longer than chunk_size, without a separator, into chunks that
\* overlap, one of them of the full chunk_size
C13_Witness ==
    /\ ret.op = "chunk_document"
    /\ ret.chunker.chunk_size >= 2
    /\ ret.chunker.chunk_overlap = ret.chunker.chunk_size - 1
    /\ Len(ret.text) > ret.chunker.chunk_size
    /\ \A i \in 1..Len(ret.text) : ~IsSpace(ret.text[i])
    /\ Len(ret.chunks) >= 2
    /\ Len(ret.chunks[1].content) = ret.chunker.chunk_size
    /\ ret.chunks[2].content[1] = ret.chunks[1].content[2]

\* C14 as claimed: chunk_document fails with EmptyInputError exactly when
\* the text is empty after trimming, and returns a chunk or more otherwise.
C14_EmptyInputError ==
    ret.op = "chunk_document" =>
      /\ (Strip(ret.text) = <<>>) <=>
           (ret.status = "raised" /\ ret.message = "EmptyInputError")
      /\ Strip(ret.text) # <<>> => Len(ret.chunks) >= 1

\* extraction of the file raises nothing
Extracts(path) == ~Loaded(path).raised

\* the file has an extension the loop handles (it is not skipped)
Supported(path) == Lower(path.suffix) \in {".txt", ".md", ".json"}

\* C15 as claimed: when extraction fails for a document of the batch, only
\* that document is dropped: if the other documents give chunks that the
\* store would take, the call returns "success" and their chunks are in the
\* store.
C15_PerDocumentFailure ==
    LET others == Assemble(SelectSeq(ret.paths, Extracts)).chunks
    IN  (/\ ret.op = "ingest_documents"
         /\ \E i \in 1..Len(ret.paths) : ~Extracts(ret.paths[i])
         /\ others # <<>>
         /\ add_documents(pre, others, generate_embeddings(Contents(others))).raised
              = NoError)
        => /\ ret.status = "success"
           /\ \A k \in 1..Len(others) : others[k].id \in Ids(store)

\* C16 as claimed: ingest_documents returns a status "success" or "error"
\* and raises nothing, and it returns "success" only if every chunk of the
\* batch is in the store as the batch gave it.
C16_OutcomeReportedAsValue ==
    ret.op = "ingest_documents" =>
      /\ ret.status \in {"success", "error"}
      /\ ret.status = "success" =>
           \A chunk \in Range(Assemble(ret.paths).chunks) :
             /\ chunk.id \in Ids(store)
             /\ store.recs[chunk.id].document = chunk.content
             /\ store.recs[chunk.id].metadata = chunk.metadata

\* C17 as claimed: the message of a successful ingest_documents carries the
\* number of documents that were extracted and chunked (not the files
\* skipped for their extension) and the number of records the call
\* inserted.
C17_ReportCounts ==
    (ret.op = "ingest_documents" /\ ret.status = "success") =>
      ret.message = SuccessMessage(Len(SelectSeq(ret.paths, Supported)),
                                   Cardinality(Ids(store) \ Ids(pre)))

\* the LLM returned a content that holds no JSON document
NotJson(reply) ==
    ~reply.raised /\ \A i \in 1..Len(reply.content) :
                        reply.content[i] \notin DOMAIN JsonDocuments

\* C18: with a retrieved context that is not empty, generate_test_cases
\* returns the empty list when the LLM call raises or its reply is not
\* JSON, generate_script returns its error text when the LLM call raises,
\* neither raises, and the store is what it was.
C18_LLMFailureContained ==
    /\ (/\ ret.op = "generate_test_cases"
        /\ ret.context # <<>>
        /\ (ret.reply.raised \/ NotJson(ret.reply)))
       => (ret.status = "ok" /\ ret.result = <<>> /\ store = pre)
    /\ (/\ ret.op = "generate_script"
        /\ ret.context # <<>>
        /\ ret.reply.raised)
       => (ret.status = "ok" /\ ret.result = ScriptError /\ store = pre)

\* C18: the LLM raised on a prompt built from a context of two chunks
C18_Witness ==
    /\ ret.op \in {"generate_test_cases", "generate_script"}
    /\ Len(ret.context) >= 2
    /\ ret.reply.raised
    /\ ret.status = "ok"

\* C19: retrieve_context(query, top_k) returns a list that search returns
\* for the embedding of the query and top_k, in its order and with nothing
\* left out, and raises what search raises; from a store without records it
\* returns the empty list, which generate_test_cases answers with the empty
\* list and no error.
C19_RetrieveContextIsSearch ==
    /\ ret.op = "retrieve_context" =>
         /\ store = pre
         /\ IF query_raises(pre, Encode(ret.text), ret.k) = NoError
            THEN /\ ret.status = "ok"
                 /\ ret.result \in search(pre, Encode(ret.text), ret.k)
                 /\ Len(ret.result) = Min(ret.k, Cardinality(Ids(pre)))
            ELSE /\ ret.status = "raised"
                 /\ ret.message = query_raises(pre, Encode(ret.text), ret.k)
    /\ (ret.op = "generate_test_cases" /\ ret.status = "ok" /\ ret.context = <<>>)
         => ret.result = <<>>

\* C19: two results or more came back, none of them at distance 0
C19_Witness ==
    /\ ret.op = "retrieve_context"
    /\ ret.status = "ok"
    /\ Len(ret.result) >= 2
    /\ \A i \in 1..Len(ret.result) : ret.result[i].distance > 0

\* C20 as claimed: after an add_documents call that returned, a search with
\* the vector of any record of the call returns that record first, at
\* distance 0 (read in favour of the claim: one of the answers the index
\* can give does).
C20_InsertThenSearch ==
    (ret.op = "add_documents" /\ ret.status = "ok") =>
      \A i \in 1..Len(ret.chunks) :
        \E results \in search(store, ret.embeddings[i], 1) :
          results[1] = [content |-> ret.chunks[i].content,
                        metadata |-> ret.chunks[i].metadata,
                        distance |-> 0]

\* C21 as claimed: add_documents takes a batch of any size, above the
\* backend's limit for one call too: when ingest_documents hands it a batch
\* of distinct ids whose vectors fit the store, the call succeeds and every
\* record of the batch is in the store.
C21_BatchOfAnySizeStored ==
    (ret.op = "ingest_documents" /\ ReachesAdd
       /\ DistinctIds(Assemble(ret.paths).chunks)
       /\ DimensionFits(pre, Encode(Assemble(ret.paths).chunks[1].content))) =>
      /\ ret.status = "success"
      /\ Range(BatchIds(Assemble(ret.paths).chunks)) \subseteq Ids(store)

\* C22: two clear-then-build sequences.  When the two callers take the lock
\* around delete_all and add_documents and both are done, the store holds
\* exactly the records of the batch whose add_documents returned last (and
\* that call did not raise).  Without the lock a round can end with a store
\* that is neither batch alone: the witness is a state that has seen both.
C22_SerializedKeepsLaterBuild ==
    (tasks.serialized /\ \A c \in Callers : tasks.pc[c] = "done") =>
      /\ ret.op = "add_documents"
      /\ ret.status = "ok"
      /\ store.recs = RecordsOf(tasks.batch[tasks.order[Len(tasks.order)]])

\* C22: a round under the lock has ended with the later batch alone in the
\* store, the other batch being a different one, after a round without the
\* lock ended with a store that is neither batch alone
C22_Witness ==
    /\ tasks.serialized
    /\ \A c \in Callers : tasks.pc[c] = "done"
    /\ tasks.batch[1] # tasks.batch[2]
    /\ store.recs = RecordsOf(tasks.batch[tasks.order[2]])
    /\ tasks.mixed

\* C23: search is read-only.  While the calls of search and of
\* retrieve_context of two callers run with their steps in any order, the
\* store stays the one they were started on, and each call that has
\* returned raised what a call alone raises on that store, or returned one
\* of the lists a call alone can return on it.
C23_SearchReadOnly ==
    /\ store = pre
    /\ \A c \in Searchers :
         LET call == tasks.call[c]
         IN  call.pc = "returned" =>
               IF call.op = "search"
               THEN /\ call.raised = query_raises(pre, call.query, call.k)
                    /\ call.raised = NoError =>
                         call.results \in search(pre, call.query, call.k)
               ELSE /\ call.raised = retrieve_raises(pre, call.text, call.k)
                    /\ call.raised = NoError =>
                         call.results \in retrieve_context(pre, call.text, call.k)

\* C23: a search and a retrieve_context, their steps mixed, have both
\* returned records of a store that holds three
C23_Witness ==
    /\ \A c \in Searchers : tasks.call[c].pc = "returned"
    /\ tasks.mixed
    /\ tasks.call[1].op = "search"
    /\ tasks.call[2].op = "retrieve_context"
    /\ \A c \in Searchers : Len(tasks.call[c].results) >= 2
    /\ Cardinality(Ids(store)) = 3

\* C24: a failed build loses the previous knowledge base.  When build_kb
\* runs with a non-empty uploaded_files and ingest_documents, called on the
\* store delete_all has emptied, returns status "error", the request answers
\* 500 and the store holds no record, whatever it held before.
C24_FailedBuildLosesKnowledgeBase ==
    (ret.op = "build_kb" /\ uploaded_files # <<>>
       /\ ingest_documents(EmptyStore, uploaded_files, ret.embed_fails).status = "error") =>
      /\ ret.status = "500"
      /\ store = EmptyStore

\* C24: a build has failed on a store that held records, the file it was to
\* read being one that a failed second write had emptied
C24_Witness ==
    /\ ret.op = "build_kb"
    /\ uploaded_files # <<>>
    /\ ret.status = "500"
    /\ ret.message = "No valid documents to process"
    /\ \E path \in DOMAIN cut_files : cut_files[path] = <<>>
    /\ Ids(pre) # {}
    /\ Ids(store) = {}

\* C25: build_kb with no uploaded files answers 400 and leaves the store as
\* it found it (neither delete_all nor ingest_documents has run); after
\* /api/clear uploaded_files is empty, html_content_store is empty,
\* current_script_session is unset and the store is empty.
C25_NothingToBuildAndClear ==
    /\ (ret.op = "build_kb" /\ uploaded_files = <<>>) =>
         /\ ret.status = "400"
         /\ store = pre
    /\ ret.op = "clear" =>
         /\ uploaded_files = <<>>
         /\ html_content_store = ""
         /\ current_script_session = NoSession
         /\ store = EmptyStore

\* C25: a build with no uploaded files was refused on a store that holds
\* records, while HTML content and a script session are held
C25_Witness ==
    /\ ret.op = "build_kb"
    /\ uploaded_files = <<>>
    /\ ret.status = "400"
    /\ Ids(store) # {}
    /\ html_content_store # ""
    /\ current_script_session # NoSession

\* C26: the service serializes the clear-then-build sequence.  While a
\* build_kb is between its delete_all and its ingest_documents, its handler
\* has the event loop, the store is as delete_all left it, uploaded_files
\* is the list the handler tested, and no other build_kb is there too (at
\* most one ingestion is in progress); and every step taken then is the
\* step of that handler: the other requests make none, they can only come in.
C26_BuildHoldsTheLoop ==
    /\ [](\A t \in Requests :
            tasks.req[t] = [op |-> "build_kb", pc |-> "ingest"] =>
              /\ tasks.running = t
              /\ store = EmptyStore
              /\ uploaded_files # <<>>
              /\ \A u \in Requests \ {t} : tasks.req[u].pc # "ingest")
    /\ [][\A t \in Requests :
            tasks.req[t] = [op |-> "build_kb", pc |-> "ingest"] =>
              /\ \/ tasks'.req[t] = NoRequest /\ ret'.op = "build_kb"
                 \/ UNCHANGED <<store, uploaded_files, ret, tasks.req[t]>>
              /\ \A u \in Requests \ {t} : tasks'.req[u] = tasks.req[u]
                                              \/ tasks.req[u] = NoRequest]_vars

\* C26: a build_kb has cleared a store that held records and is about to
\* ingest, while a request for another endpoint that writes is waiting
C26_Witness ==
    /\ tasks.req[1] = [op |-> "build_kb", pc |-> "ingest"]
    /\ tasks.req[2] \in {[op |-> "clear", pc |-> "ready"],
                         [op |-> "build_kb", pc |-> "ready"],
                         [op |-> "upload", pc |-> "ready"]}
    /\ Ids(pre) # {}
    /\ store = EmptyStore

====
